---------------------------- MODULE Spec2Model ----------------------------
(***************************************************************************)
(* The aggregation endpoint GET /api/data of ev-dashboard (src/server.js). *)
(*                                                                         *)
(* The handler sends five SELECT statements to a PostgreSQL pool, joins    *)
(* them with Promise.all, and answers with one JSON envelope or with a     *)
(* fixed 500 message.  The model has two layers:                           *)
(*   - the five SQL statements, as operators over the two tables;          *)
(*   - the handler, as a state machine over request slots.                 *)
(*                                                                         *)
(* Text is a sequence of character codes (ASCII), so that TRIM, UPPER,     *)
(* TO_CHAR and ORDER BY act on characters.  A nullable column holds NULL   *)
(* (the empty tuple) or <<v>>.  A table is a bag: row |-> multiplicity.    *)
(*                                                                         *)
(* What the source leaves to PostgreSQL and the driver: text is ordered by *)
(* character code (the database's collation agrees on upper-case letters   *)
(* and digits); the row count is a number (the driver chooses how it is    *)
(* written in JSON); rows that ORDER BY does not order come in any order.  *)
(* A statement reads the tables at one moment between its dispatch and its *)
(* completion; no transaction spans the five statements.                   *)
(***************************************************************************)
EXTENDS Integers, Sequences, FiniteSets

\* --------------------------------------------------------------- bounds
\* Most rows the writer or the initial state puts in ev_registrations.
MaxRegs == 3
\* Most rows in charging_stations.
MaxStations == 2
\* Most changes the external writer makes in one behaviour.
MaxWrites == 2

\* ----------------------------------------------------------------- text
CodeOf ==
  [c \in {" ", "-", "0", "2", "3", "4", "5", "A", "C", "D", "F", "I", "K", "O", "R", "T", "X",
          "a", "c", "d", "e", "i", "k", "l", "o", "r", "s", "t"} |->
     CASE c = " " -> 32 [] c = "-" -> 45
       [] c = "0" -> 48 [] c = "2" -> 50 [] c = "3" -> 51 [] c = "4" -> 52
       [] c = "5" -> 53
       [] c = "A" -> 65 [] c = "C" -> 67 [] c = "D" -> 68 [] c = "F" -> 70
       [] c = "I" -> 73 [] c = "K" -> 75 [] c = "O" -> 79 [] c = "R" -> 82
       [] c = "T" -> 84 [] c = "X" -> 88
       [] c = "a" -> 97 [] c = "c" -> 99 [] c = "d" -> 100 [] c = "e" -> 101
       [] c = "i" -> 105 [] c = "k" -> 107 [] c = "l" -> 108 [] c = "o" -> 111
       [] c = "r" -> 114 [] c = "s" -> 115 [] c = "t" -> 116]

\* The text written with the given characters.
Str(chars) == [i \in 1..Len(chars) |-> CodeOf[chars[i]]]

\* SQL UPPER on ASCII text: a..z become A..Z, every other character stays.
UPPER(t) == [i \in 1..Len(t) |-> IF t[i] \in 97..122 THEN t[i] - 32 ELSE t[i]]

RECURSIVE LTrim(_)
LTrim(t) == IF t # <<>> /\ t[1] = 32 THEN LTrim(Tail(t)) ELSE t

RECURSIVE RTrim(_)
RTrim(t) ==
  IF t # <<>> /\ t[Len(t)] = 32 THEN RTrim(SubSeq(t, 1, Len(t) - 1)) ELSE t

\* SQL TRIM(x): spaces (and only spaces) removed from both ends.
TRIM(t) == RTrim(LTrim(t))

\* The order of ORDER BY on text: character by character, a proper prefix first.
RECURSIVE TextLess(_, _)
TextLess(a, b) ==
  IF b = <<>> THEN FALSE
  ELSE IF a = <<>> THEN TRUE
  ELSE IF a[1] # b[1] THEN a[1] < b[1]
  ELSE TextLess(Tail(a), Tail(b))

\* The decimal digits of a natural number, as text.
RECURSIVE Digits(_)
Digits(n) ==
  IF n < 10 THEN <<48 + n>> ELSE Digits(n \div 10) \o <<48 + (n % 10)>>

\* Text padded on the left with '0' to the given width.
RECURSIVE ZeroPad(_, _)
ZeroPad(t, width) == IF Len(t) >= width THEN t ELSE ZeroPad(<<48>> \o t, width)

\* TO_CHAR(date_reg, 'YYYY-MM').
TO_CHAR_YYYY_MM(d) ==
  ZeroPad(Digits(d.y), 4) \o <<45>> \o ZeroPad(Digits(d.m), 2)

\* EXTRACT(YEAR FROM date_reg)::text.
EXTRACT_YEAR_text(d) == Digits(d.y)

\* --------------------------------------------------------------- tables
NULL == <<>>
Some(v) == <<v>>
Date(y, m, d) == [y |-> y, m |-> m, d |-> d]
Reg(state, brand, date_reg, fuel) ==
  [state |-> state, brand |-> brand, date_reg |-> date_reg, fuel |-> fuel]

\* The three registrations of the dashboard's reference scenario.
RegCaTesla ==
  Reg(Some(Str(<<"c","a"," ">>)), Some(Str(<<"T","e","s","l","a">>)),
      Some(Date(2024, 3, 15)), "electric")
RegCATesla ==
  Reg(Some(Str(<<"C","A">>)), Some(Str(<<"t","e","s","l","a">>)),
      Some(Date(2024, 3, 20)), "electric")
RegTxDiesel ==
  Reg(Some(Str(<<"T","X">>)), Some(Str(<<"F","o","r","d">>)),
      Some(Date(2023, 11, 1)), "diesel")
\* One registration per way of missing a WHERE clause of chartQuery.
RegNullState ==
  Reg(NULL, Some(Str(<<"K","i","a">>)), Some(Date(2025, 1, 2)), "hybrid_petrol")
RegBlankBrand ==
  Reg(Some(Str(<<"O","R">>)), Some(Str(<<" ">>)),
      Some(Date(2024, 3, 9)), "hybrid_diesel")
RegNullDate ==
  Reg(Some(Str(<<"I","D">>)), Some(Str(<<"F","o","r","d">>)), NULL, "electric")
\* Two more qualifying registrations; the first shares its month with the
\* scenario's group, the second has a month of its own.
RegTxFord ==
  Reg(Some(Str(<<" ","T","X">>)), Some(Str(<<"F","o","r","d">>)),
      Some(Date(2024, 3, 9)), "hybrid_diesel")
RegCaKia ==
  Reg(Some(Str(<<"c","a">>)), Some(Str(<<"K","i","a"," ">>)),
      Some(Date(2023, 11, 30)), "hybrid_petrol")

\* The rows ev_registrations may hold.
RegRows ==
  {RegCaTesla, RegCATesla, RegTxDiesel, RegNullState, RegBlankBrand,
   RegNullDate, RegTxFord, RegCaKia}

Station(name, latitude, longitude, state) ==
  [name |-> name, latitude |-> latitude, longitude |-> longitude,
   state |-> state]

StationDepot == Station("Depot", 3, 101, "kl")
StationMall == Station("Mall", 5, 100, "Penang ")
StationRows == {StationDepot, StationMall}

\* Number of rows of a table.
RECURSIVE SumOver(_, _)
SumOver(t, S) ==
  IF S = {} THEN 0
  ELSE LET x == CHOOSE x \in S : TRUE IN t[x] + SumOver(t, S \ {x})

RowCount(t) == SumOver(t, DOMAIN t)
Present(t) == {x \in DOMAIN t : t[x] > 0}
EmptyTable(rows) == [x \in rows |-> 0]
Tables(rows, max) == {t \in [rows -> 0..max] : RowCount(t) <= max}

\* ---------------------------------------------------------- SQL helpers
\* fuel IN ('electric', 'hybrid_petrol', 'hybrid_diesel')
FuelIn(r) == r.fuel \in {"electric", "hybrid_petrol", "hybrid_diesel"}

\* col IS NOT NULL AND TRIM(col) <> ''
NotBlank(col) == col # NULL /\ TRIM(col[1]) # <<>>

\* All orders in which the distinct elements of S can be returned.
Perms(S) ==
  {f \in [1..Cardinality(S) -> S] :
     \A i, j \in 1..Cardinality(S) : i # j => f[i] # f[j]}

\* Variant of OrderBy: ORDER BY v DESC.
RECURSIVE OrderByDescending(_)
OrderByDescending(S) ==
  IF S = {} THEN <<>>
  ELSE LET most == CHOOSE v \in S : \A w \in S \ {v} : TextLess(w, v)
       IN  <<most>> \o OrderByDescending(S \ {most})

\* SELECT DISTINCT v ... ORDER BY v: the values of S, ascending.
RECURSIVE OrderBy(_)
OrderBy(S) ==
  IF S = {} THEN <<>>
  ELSE LET least == CHOOSE v \in S : \A w \in S \ {v} : TextLess(v, w)
       IN  <<least>> \o OrderBy(S \ {least})

\* ----------------------------------------------------------- chartQuery
ChartWhere(r) ==
  /\ NotBlank(r.state)
  /\ NotBlank(r.brand)
  /\ r.date_reg # NULL
  /\ FuelIn(r)

\* Variant of ChartGroup: GROUP BY UPPER(state), the TRIM forgotten.
ChartGroupUntrimmed(r) ==
  [state |-> UPPER(r.state[1]),
   brand |-> UPPER(TRIM(r.brand[1])),
   month |-> TO_CHAR_YYYY_MM(r.date_reg[1])]

\* The GROUP BY key of a row that passed the WHERE clause.
ChartGroup(r) ==
  [state |-> UPPER(TRIM(r.state[1])),
   brand |-> UPPER(TRIM(r.brand[1])),
   month |-> TO_CHAR_YYYY_MM(r.date_reg[1])]

\* One output row per group: the key and the count of its rows.
ChartRow(regs, g) ==
  [state |-> g.state, brand |-> g.brand, month |-> g.month,
   registrations |->
     SumOver(regs, {r \in Present(regs) : ChartWhere(r) /\ ChartGroup(r) = g})]

ChartRows(regs) ==
  {ChartRow(regs, g) :
     g \in {ChartGroup(r) : r \in {x \in Present(regs) : ChartWhere(x)}}}

\* ORDER BY month: any order of the rows in which month never decreases.
\* SQL leaves the order of rows with equal month to the server.
OrderedByMonth(s) ==
  \A i \in 1..(Len(s) - 1) : ~TextLess(s[i + 1].month, s[i].month)

chartQuery(regs) == {s \in Perms(ChartRows(regs)) : OrderedByMonth(s)}

\* ------------------------------------------------------- filter queries
BrandWhere(r) == NotBlank(r.brand) /\ FuelIn(r)
brandQuery(regs) ==
  OrderBy({UPPER(TRIM(r.brand[1])) : r \in {x \in Present(regs) : BrandWhere(x)}})

StateWhere(r) == NotBlank(r.state) /\ FuelIn(r)
stateQuery(regs) ==
  OrderBy({UPPER(TRIM(r.state[1])) : r \in {x \in Present(regs) : StateWhere(x)}})

YearWhere(r) == r.date_reg # NULL /\ FuelIn(r)
yearQuery(regs) ==
  OrderBy({EXTRACT_YEAR_text(r.date_reg[1]) :
             r \in {x \in Present(regs) : YearWhere(x)}})

\* --------------------------------------------------------- stationQuery
\* SELECT name, latitude, longitude, state FROM charging_stations: every
\* row, once per copy, in an order the server chooses (no ORDER BY).
stationQuery(stations) ==
  {s \in [1..RowCount(stations) -> DOMAIN stations] :
     \A x \in DOMAIN stations :
        Cardinality({i \in 1..RowCount(stations) : s[i] = x}) = stations[x]}

\* ------------------------------------------------------------- envelope
Queries == {"chart", "brand", "state", "year", "station"}

\* Variant of Query: brandQuery without its ORDER BY clause.
QueryBrandsUnordered(q, regs, stations) ==
  CASE q = "chart" -> chartQuery(regs)
    [] q = "brand" ->
         Perms({UPPER(TRIM(r.brand[1])) : r \in {x \in Present(regs) : BrandWhere(x)}})
    [] q = "state" -> {stateQuery(regs)}
    [] q = "year" -> {yearQuery(regs)}
    [] q = "station" -> stationQuery(stations)

\* The row sequences pool.query may resolve with for statement q.
Query(q, regs, stations) ==
  CASE q = "chart" -> chartQuery(regs)
    [] q = "brand" -> {brandQuery(regs)}
    [] q = "state" -> {stateQuery(regs)}
    [] q = "year" -> {yearQuery(regs)}
    [] q = "station" -> stationQuery(stations)

\* Variant of Envelope: brands and states filled from each other's rows.
EnvelopeSwapped(result) ==
  [chartData |-> result["chart"],
   stationData |-> result["station"],
   filters |-> [brands |-> result["state"],
                states |-> result["brand"],
                years |-> result["year"]]]

\* The body of res.json(...), from the five results by position.
Envelope(result) ==
  [chartData |-> result["chart"],
   stationData |-> result["station"],
   filters |-> [brands |-> result["brand"],
                states |-> result["state"],
                years |-> result["year"]]]

GenericMessage == "A critical error occurred while fetching data from the database."
Resp200(result) == [status |-> 200, body |-> Envelope(result)]
Resp500 == [status |-> 500, body |-> GenericMessage]

\* ---------------------------------------------------------------- state
VARIABLES
  ev_registrations,   \* table ev_registrations
  charging_stations,  \* table charging_stations
  pc,                 \* per request slot: "idle", "awaiting", "done"
  qstat,              \* per slot and statement: "none", "pending", "ok", "failed"
  result,             \* per slot and statement: the rows pool.query resolved with
  promiseAll,         \* per slot: state of the Promise.all promise
  res,                \* per slot: the responses sent, in order
  prevFailed,         \* observer: the slot's previous request was answered 500
  seen,               \* observer: <<body>> of the last 200 response before the current request
  hist,               \* observer: the table contents since slot 1's request arrived
  writes              \* number of changes the external writer made

store == <<ev_registrations, charging_stations>>
handler == <<pc, qstat, result, promiseAll, res>>
observers == <<prevFailed, seen, hist, writes>>
vars == <<ev_registrations, charging_stations, pc, qstat, result, promiseAll,
          res, prevFailed, seen, hist, writes>>

\* Two requests may be in flight at once; a slot is reused by the next
\* request once its response is sent and its statements have all settled.
Slots == {1, 2}

ScenarioRegs ==
  [x \in RegRows |-> IF x \in {RegCaTesla, RegCATesla, RegTxDiesel} THEN 1 ELSE 0]

InitHandler ==
  /\ pc = [r \in Slots |-> "idle"]
  /\ qstat = [r \in Slots |-> [q \in Queries |-> "none"]]
  /\ result = [r \in Slots |-> [q \in Queries |-> <<>>]]
  /\ promiseAll = [r \in Slots |-> "none"]
  /\ res = [r \in Slots |-> <<>>]
  /\ prevFailed = [r \in Slots |-> FALSE]
  /\ seen = <<>>
  /\ hist = {}
  /\ writes = 0

\* ------------------------------------------------------------ Promise.all
\* Variant of Dispatched: the statements awaited one by one, so that only
\* the first is sent before the handler suspends.
DispatchedFirstOnly == {"chart"}

\* The statements the handler has sent to the pool when it reaches await:
\* the array literal calls pool.query five times before Promise.all runs.
Dispatched == Queries

\* Variant of NewPromise: a rejection remembered from one request to the next.
NewPromiseStale(old) == IF old = "rejected" THEN "rejected" ELSE "pending"

\* The promise a request starts with (old: the slot's previous one).
NewPromise(old) == "pending"

\* Variant of Fulfils: fulfilled by the first element that fulfils.
FulfilsAny(st) == \E q \in Queries : st[q] = "ok"

\* Promise.all fulfils when every element has fulfilled.
Fulfils(st) == \A q \in Queries : st[q] = "ok"

\* Variant of Rejects: every rejection runs the catch block.
RejectsAlways(p) == TRUE

\* A promise settles once: a rejection acts only on a pending promise.
Rejects(p) == p = "pending"

\* Variant of OnError: the catch block sends what has arrived so far.
OnErrorPartial(rows) == Resp200(rows)

\* The catch block's response.
OnError(rows) == Resp500

\* --------------------------------------------------------------- handler
\* app.get('/api/data') up to await: the request arrives, the five
\* statements go to the pool, the handler suspends on Promise.all.
Arrive(r) ==
  /\ \/ pc[r] = "idle"
     \/ pc[r] = "done" /\ \A q \in Queries : qstat[r][q] # "pending"
  /\ pc' = [pc EXCEPT ![r] = "awaiting"]
  /\ qstat' = [qstat EXCEPT ![r] =
                 [q \in Queries |-> IF q \in Dispatched THEN "pending" ELSE "none"]]
  /\ result' = [result EXCEPT ![r] = [q \in Queries |-> <<>>]]
  /\ promiseAll' = [promiseAll EXCEPT ![r] = NewPromise(promiseAll[r])]
  /\ res' = [res EXCEPT ![r] = <<>>]
  /\ UNCHANGED store

\* Statement q of slot r resolves with rows read from the tables as they
\* are now.  If it is the last one, Promise.all fulfils and the handler
\* resumes after await and sends the envelope (res.json).
QueryOk(r, q) ==
  /\ qstat[r][q] = "pending"
  /\ \E rows \in Query(q, ev_registrations, charging_stations) :
       LET st == [qstat[r] EXCEPT ![q] = "ok"]
           rs == [result[r] EXCEPT ![q] = rows]
       IN  /\ qstat' = [qstat EXCEPT ![r] = st]
           /\ result' = [result EXCEPT ![r] = rs]
           /\ IF promiseAll[r] = "pending" /\ Fulfils(st)
              THEN /\ promiseAll' = [promiseAll EXCEPT ![r] = "fulfilled"]
                   /\ res' = [res EXCEPT ![r] = Append(@, Resp200(rs))]
                   /\ pc' = [pc EXCEPT ![r] = "done"]
              ELSE UNCHANGED <<promiseAll, res, pc>>
  /\ UNCHANGED store

\* Statement q of slot r rejects.  The first rejection rejects Promise.all:
\* the handler resumes in catch and sends the 500 message.
QueryFail(r, q) ==
  /\ qstat[r][q] = "pending"
  /\ qstat' = [qstat EXCEPT ![r][q] = "failed"]
  /\ IF Rejects(promiseAll[r])
     THEN /\ promiseAll' = [promiseAll EXCEPT ![r] = "rejected"]
          /\ res' = [res EXCEPT ![r] = Append(@, OnError(result[r]))]
          /\ pc' = [pc EXCEPT ![r] = "done"]
     ELSE UNCHANGED <<promiseAll, res, pc>>
  /\ UNCHANGED <<result, store>>

\* ----------------------------------------------------- the external writer
\* Another client of the database inserts or deletes a row.
InsertReg(x) ==
  /\ writes < MaxWrites
  /\ RowCount(ev_registrations) < MaxRegs
  /\ ev_registrations' = [ev_registrations EXCEPT ![x] = @ + 1]
  /\ writes' = writes + 1
  /\ UNCHANGED <<charging_stations, handler>>

DeleteReg(x) ==
  /\ writes < MaxWrites
  /\ ev_registrations[x] > 0
  /\ ev_registrations' = [ev_registrations EXCEPT ![x] = @ - 1]
  /\ writes' = writes + 1
  /\ UNCHANGED <<charging_stations, handler>>

InsertStation(x) ==
  /\ writes < MaxWrites
  /\ RowCount(charging_stations) < MaxStations
  /\ charging_stations' = [charging_stations EXCEPT ![x] = @ + 1]
  /\ writes' = writes + 1
  /\ UNCHANGED <<ev_registrations, handler>>

\* ------------------------------------------------------- specifications
\* Spec: two slots, statements may fail, the tables do not change.
Init ==
  /\ ev_registrations = ScenarioRegs
  /\ charging_stations = [EmptyTable(StationRows) EXCEPT ![StationDepot] = 1]
  /\ InitHandler

ArriveAfter(r) ==
  /\ Arrive(r)
  /\ prevFailed' = [prevFailed EXCEPT ![r] = (res[r] = <<Resp500>>)]
  /\ UNCHANGED <<seen, hist, writes>>

Next ==
  \E r \in Slots :
    \/ ArriveAfter(r)
    \/ \E q \in Queries : QueryOk(r, q) /\ UNCHANGED observers
    \/ \E q \in Queries : QueryFail(r, q) /\ UNCHANGED observers

Spec == Init /\ [][Next]_vars

\* SpecData: one slot, no failure, the tables hold any rows within the
\* bounds and do not change; the client keeps the envelope it received when
\* it asks again.
InitData ==
  /\ ev_registrations \in Tables(RegRows, MaxRegs)
  /\ charging_stations \in Tables(StationRows, MaxStations)
  /\ InitHandler

ArriveAgain(r) ==
  /\ Arrive(r)
  /\ seen' = IF res[r] # <<>> /\ res[r][1].status = 200
             THEN <<res[r][1].body>> ELSE seen
  /\ UNCHANGED <<prevFailed, hist, writes>>

NextData ==
  \/ ArriveAgain(1)
  \/ \E q \in Queries : QueryOk(1, q) /\ UNCHANGED observers

SpecData == InitData /\ [][NextData]_vars

\* SpecWriter: one slot, no failure, and an external writer that changes
\* the tables while the request's statements are in flight.
InitWriter ==
  /\ ev_registrations \in {EmptyTable(RegRows), ScenarioRegs}
  /\ charging_stations = EmptyTable(StationRows)
  /\ InitHandler

ArriveWatched(r) ==
  /\ Arrive(r)
  /\ hist' = {store}
  /\ UNCHANGED <<prevFailed, seen, writes>>

\* The observer records every content the tables take while the request of
\* slot 1 is awaiting its statements.
Watch ==
  /\ hist' = IF pc[1] = "awaiting" THEN hist \cup {store'} ELSE hist
  /\ UNCHANGED <<prevFailed, seen>>

\* The registrations the writer inserts: qualifying ones and one that only
\* the brand and year filters accept.
WriterRows == {RegCATesla, RegTxFord, RegCaKia, RegNullState}

NextWriter ==
  \/ ArriveWatched(1)
  \/ \E q \in Queries : QueryOk(1, q) /\ UNCHANGED observers
  \/ \E x \in WriterRows : InsertReg(x) /\ Watch
  \/ \E x \in RegRows : DeleteReg(x) /\ Watch
  \/ \E x \in StationRows : InsertStation(x) /\ Watch

SpecWriter == InitWriter /\ [][NextWriter]_vars

\* ------------------------------------------------- vocabulary of the claims
Range(s) == {s[i] : i \in DOMAIN s}
Sent200(r) == res[r] # <<>> /\ res[r][1].status = 200
Body(r) == res[r][1].body
Occurrences(s, x) == Cardinality({i \in DOMAIN s : s[i] = x})

\* A qualifying registration, as the specification words it.
Qualifying(x) ==
  /\ x.state # NULL /\ TRIM(x.state[1]) # <<>>
  /\ x.brand # NULL /\ TRIM(x.brand[1]) # <<>>
  /\ x.date_reg # NULL
  /\ x.fuel \in {"electric", "hybrid_petrol", "hybrid_diesel"}

QualifyingRegs == {x \in Present(ev_registrations) : Qualifying(x)}

\* (UPPER(TRIM(state)), UPPER(TRIM(brand)), YYYY-MM month) of a registration.
GroupOf(x) ==
  <<UPPER(TRIM(x.state[1])), UPPER(TRIM(x.brand[1])),
    TO_CHAR_YYYY_MM(x.date_reg[1])>>
KeyOf(row) == <<row.state, row.brand, row.month>>

\* Text with no space at either end, no lower-case letter, and not empty.
Normalized(t) ==
  /\ t # <<>> /\ t[1] # 32 /\ t[Len(t)] # 32
  /\ \A i \in DOMAIN t : t[i] \notin 97..122

StrictlyAscending(s) == \A i \in 1..(Len(s) - 1) : TextLess(s[i], s[i + 1])

\* ------------------------------------------------------------------- C2
\* C2: in a successful response chartData has exactly one row per distinct
\* (UPPER(TRIM(state)), UPPER(TRIM(brand)), month) among the qualifying
\* registrations, its count is the number of qualifying registrations of
\* that group, every row stems from a qualifying registration, and state
\* and brand are in trimmed upper case.
C2_ChartDataExact ==
  Sent200(1) =>
    LET cd == Body(1).chartData
    IN  /\ \A g \in {GroupOf(x) : x \in QualifyingRegs} :
             /\ Cardinality({i \in DOMAIN cd : KeyOf(cd[i]) = g}) = 1
             /\ \A i \in DOMAIN cd :
                  KeyOf(cd[i]) = g =>
                    cd[i].registrations =
                      SumOver(ev_registrations,
                              {x \in QualifyingRegs : GroupOf(x) = g})
        /\ \A i \in DOMAIN cd :
             /\ \E x \in QualifyingRegs : GroupOf(x) = KeyOf(cd[i])
             /\ Normalized(cd[i].state) /\ Normalized(cd[i].brand)

\* The reference scenario has been answered: two differently written
\* registrations counted in one row, the diesel registration left out.
C2_Witness ==
  /\ Sent200(1)
  /\ ev_registrations = ScenarioRegs
  /\ Len(Body(1).chartData) = 1
  /\ Body(1).chartData[1].registrations = 2
  /\ Body(1).chartData[1].state = Str(<<"C","A">>)
  /\ Body(1).chartData[1].month = Str(<<"2","0","2","4","-","0","3">>)

\* ------------------------------------------------------------------- C3
\* C3 (as claimed): in a successful response filters.brands is exactly the
\* set of brands of chartData, filters.states the set of its states, and
\* filters.years the set of the years of its months.
C3_FiltersMatchChart ==
  Sent200(1) =>
    LET cd == Body(1).chartData
        f == Body(1).filters
    IN  /\ Range(f.brands) = {cd[i].brand : i \in DOMAIN cd}
        /\ Range(f.states) = {cd[i].state : i \in DOMAIN cd}
        /\ Range(f.years) = {SubSeq(cd[i].month, 1, 4) : i \in DOMAIN cd}

\* ------------------------------------------------------------------- C4
\* C4 (as claimed): with the tables unchanged, a successful response is
\* identical to the successful response before it, row order included.
C4_IdenticalResponses ==
  (Sent200(1) /\ seen # <<>>) => Body(1) = seen[1]

\* C4 (amended): with the tables unchanged, two successful responses have
\* identical filter lists (order included), the same chartData rows and the
\* same stationData rows with the same multiplicities; only the order of
\* chartData rows and of stationData rows may differ.
C4_SameUpToRowOrder ==
  (Sent200(1) /\ seen # <<>>) =>
    LET a == seen[1]
        b == Body(1)
    IN  /\ a.filters = b.filters
        /\ Len(a.chartData) = Len(b.chartData)
        /\ Range(a.chartData) = Range(b.chartData)
        /\ Len(a.stationData) = Len(b.stationData)
        /\ \A x \in StationRows :
             Occurrences(a.stationData, x) = Occurrences(b.stationData, x)

\* Two successive successful responses over the same tables whose chartData
\* list the same rows in different orders.
C4_Witness ==
  /\ Sent200(1) /\ seen # <<>>
  /\ seen[1].chartData # Body(1).chartData
  /\ Len(Body(1).chartData) >= 2

\* ------------------------------------------------------------------- C5
\* C5: in a successful response filters.states and filters.brands are
\* strictly ascending (so duplicate-free), filters.years is ascending and
\* duplicate-free in the order of text, and chartData is in non-decreasing
\* order of month.
C5_Ordered ==
  Sent200(1) =>
    /\ StrictlyAscending(Body(1).filters.states)
    /\ StrictlyAscending(Body(1).filters.brands)
    /\ StrictlyAscending(Body(1).filters.years)
    /\ \A i, j \in DOMAIN Body(1).chartData :
         i < j => ~TextLess(Body(1).chartData[j].month, Body(1).chartData[i].month)

\* A successful response with several states, brands, years and months.
C5_Witness ==
  /\ Sent200(1)
  /\ Len(Body(1).filters.states) >= 2
  /\ Len(Body(1).filters.brands) >= 3
  /\ Len(Body(1).filters.years) >= 2
  /\ \E i, j \in DOMAIN Body(1).chartData :
       TextLess(Body(1).chartData[i].month, Body(1).chartData[j].month)

\* ------------------------------------------------------------------ C10
\* C10 (as claimed): every successful envelope is consistent with a single
\* content of the tables that existed during the request: all five parts
\* are what the five statements return on that one content.
C10_SingleSnapshot ==
  Sent200(1) =>
    \E st \in hist :
      /\ Body(1).chartData \in chartQuery(st[1])
      /\ Body(1).filters.brands = brandQuery(st[1])
      /\ Body(1).filters.states = stateQuery(st[1])
      /\ Body(1).filters.years = yearQuery(st[1])
      /\ Body(1).stationData \in stationQuery(st[2])

\* C10 (amended): each of the five parts of a successful envelope is what
\* its statement returns on some content of the tables that existed during
\* the request; the five contents need not be the same.
C10_EachPartSomeSnapshot ==
  Sent200(1) =>
    /\ \E st \in hist : Body(1).chartData \in chartQuery(st[1])
    /\ \E st \in hist : Body(1).filters.brands = brandQuery(st[1])
    /\ \E st \in hist : Body(1).filters.states = stateQuery(st[1])
    /\ \E st \in hist : Body(1).filters.years = yearQuery(st[1])
    /\ \E st \in hist : Body(1).stationData \in stationQuery(st[2])

\* An envelope sent after the writer acted during the request, whose
\* filters.brands holds a brand that no chartData row has.
C10_Witness ==
  /\ Sent200(1)
  /\ Cardinality(hist) >= 2
  /\ Range(Body(1).filters.brands) \
       {Body(1).chartData[i].brand : i \in DOMAIN Body(1).chartData} # {}
  /\ \A st \in hist :
       ~(/\ Body(1).chartData \in chartQuery(st[1])
         /\ Body(1).filters.brands = brandQuery(st[1]))

\* ------------------------------------------------------------------- C1
Settled(r) == \A q \in Queries : qstat[r][q] \in {"ok", "failed"}
SomeFailed(r) == \E q \in Queries : qstat[r][q] = "failed"
SomePending(r) == \E q \in Queries : qstat[r][q] = "pending"

\* C1: once a statement of a request has failed, whatever the other four
\* did or do, the one response of the request is HTTP 500 with the fixed
\* message; no envelope and no rows are sent.
C1_FailureIs500 ==
  \A r \in Slots :
    SomeFailed(r) =>
      res[r] = <<[status |-> 500,
                  body |-> "A critical error occurred while fetching data from the database."]>>

\* A request answered 500 with one statement failed, one succeeded (its
\* rows are held) and one still pending.
C1_Witness ==
  \E r \in Slots :
    /\ qstat[r]["year"] = "failed"
    /\ qstat[r]["chart"] = "ok" /\ result[r]["chart"] # <<>>
    /\ qstat[r]["station"] = "pending"
    /\ res[r] # <<>> /\ res[r][1].status = 500

\* ------------------------------------------------------------------- C6
\* C6: no step of a request handler changes the tables, and a request
\* whose five statements all succeeded is answered 200 with the envelope of
\* its own five results, read from the tables as they are, whatever
\* happened to earlier or overlapping requests.
C6_Independent ==
  /\ [][handler' # handler =>
          /\ ev_registrations' = ev_registrations
          /\ charging_stations' = charging_stations]_vars
  /\ [](\A r \in Slots :
          (\A q \in Queries : qstat[r][q] = "ok") =>
            /\ res[r] = <<[status |-> 200, body |-> Envelope(result[r])]>>
            /\ \A q \in Queries :
                 result[r][q] \in Query(q, ev_registrations, charging_stations))

\* A request answered 200 in a slot whose previous request was answered
\* 500, while the request of the other slot was answered 500 too.
C6_Witness ==
  \E r \in Slots :
    /\ prevFailed[r]
    /\ Sent200(r)
    /\ \E s \in Slots \ {r} : res[s] # <<>> /\ res[s][1].status = 500

\* ------------------------------------------------------------------- C7
\* C7: while the handler awaits, all five statements have been sent to the
\* pool (none waits for another to complete), and the envelope holds each
\* statement's rows in its own field whatever the order of completion.
C7_AllDispatched ==
  \A r \in Slots :
    /\ pc[r] = "awaiting" => \A q \in Queries : qstat[r][q] \in {"pending", "ok"}
    /\ Sent200(r) =>
         /\ Body(r).chartData = result[r]["chart"]
         /\ Body(r).filters.brands = result[r]["brand"]
         /\ Body(r).filters.states = result[r]["state"]
         /\ Body(r).filters.years = result[r]["year"]
         /\ Body(r).stationData = result[r]["station"]
         /\ Body(r).chartData \in chartQuery(ev_registrations)
         /\ Body(r).stationData \in stationQuery(charging_stations)

\* The handler awaits, the statement sent last has completed, and the
\* statements sent first are still pending.
C7_Witness ==
  \E r \in Slots :
    /\ pc[r] = "awaiting"
    /\ qstat[r]["station"] = "ok"
    /\ qstat[r]["chart"] = "pending"
    /\ qstat[r]["brand"] = "pending"

\* ------------------------------------------------------------------- C8
\* C8 (as claimed): no response is sent for a request while one of its
\* five statements is still pending.
C8_NoResponseWhilePending ==
  \A r \in Slots : res[r] # <<>> => ~SomePending(r)

\* C8 (amended): the 200 response is sent only when all five statements
\* have succeeded; a request with a pending statement and no failed one has
\* no response; a response sent while a statement is pending is the 500
\* response, sent at the first failure.
C8_WaitsUnlessFailure ==
  \A r \in Slots :
    /\ Sent200(r) => \A q \in Queries : qstat[r][q] = "ok"
    /\ (SomePending(r) /\ ~SomeFailed(r)) => res[r] = <<>>
    /\ (res[r] # <<>> /\ SomePending(r)) =>
         (res[r][1].status = 500 /\ SomeFailed(r))

\* A request answered 500 while four of its statements are still pending.
C8_Witness ==
  \E r \in Slots :
    /\ res[r] # <<>> /\ res[r][1].status = 500
    /\ Cardinality({q \in Queries : qstat[r][q] = "pending"}) = 4

\* ------------------------------------------------------------------- C9
\* C9: a request never has more than one response, and once its five
\* statements have all settled it has exactly one: 200 if none failed,
\* 500 otherwise.
C9_OneResponse ==
  \A r \in Slots :
    /\ Len(res[r]) <= 1
    /\ Settled(r) =>
         /\ Len(res[r]) = 1
         /\ res[r][1].status = IF SomeFailed(r) THEN 500 ELSE 200

\* All five statements settled, three of them failed and two succeeded,
\* and the request has one response.
C9_Witness ==
  \E r \in Slots :
    /\ Settled(r)
    /\ Cardinality({q \in Queries : qstat[r][q] = "failed"}) = 3
    /\ Len(res[r]) = 1
=============================================================================
